---- MODULE Spec2Model ----
(***************************************************************************)
(* A model of kompresin's compression core (src/src/lib.rs):               *)
(*   - the target-size search (compress_png_to_target,                     *)
(*     compress_jpeg_to_target, compress_pdf_to_target: one loop, three    *)
(*     encoders) driven by estimate_quality;                               *)
(*   - compress_file's output-mode resolution and never-larger guard;      *)
(*   - compress_pdf_images, the PDF image-stream rewriter.                 *)
(*                                                                         *)
(* The single-shot encoders (pixo), the image decoder and the PDF          *)
(* parser/serializer (lopdf) are external.  An encoder is modelled by the  *)
(* length of the buffer it returns at each quality; a byte buffer is       *)
(* modelled by where it came from and how long it is.                      *)
(***************************************************************************)
EXTENDS Integers, Sequences, FiniteSets, TLC

VARIABLES
    \* ---- target-size search -------------------------------------------
    encLen,        \* the encoder: quality |-> length of its output
    max_quality,   \* max_quality after the clamp to [1,100]
    target_bytes,  \* the byte budget of the current call
    lo, hi,        \* the bisection bounds
    iterations,    \* the loop counter
    best_under,    \* Option<Vec<u8>>: <<>> is None, <<e>> is Some(e)
    smallest,      \* the smallest encoding seen
    tried,         \* the qualities encoded during the current call
    result,        \* the returned buffer (<<>> before the call returns)
    pc,            \* "idle", "loop", "broke" (left by break), "done"
    callsLeft,     \* how many calls on this input are still to be made
    prev,          \* <<>> or <<[target, len]>> of the previous call
    \* ---- compress_file --------------------------------------------------
    args,          \* the arguments of the compress_file call
    ret,           \* <<>> or <<r>>: what compress_file returned
    \* ---- compress_pdf_images --------------------------------------------
    pdfIn,         \* the PDF bytes given to the first call
    pdfOut,        \* <<>> or <<bytes>>: what the first call returned
    pdfOut2        \* <<>> or <<bytes>>: what a call on pdfOut returned

searchVars == <<encLen, max_quality, target_bytes, lo, hi, iterations,
                best_under, smallest, tried, result, pc, callsLeft, prev>>

fileVars == <<args, ret>>

pdfVars == <<pdfIn, pdfOut, pdfOut2>>

vars == <<searchVars, fileVars, pdfVars>>

\* ------------------------------------------------------------------------
\* Bounds of the model
\* ------------------------------------------------------------------------
MaxQ == 4            \* small max_quality values, all encoders enumerated
MaxLen == 5          \* encoded lengths 1..MaxLen for the enumerated encoders
MaxTarget == 4       \* budgets 0..MaxTarget
MaxBudgetLen == 12   \* encoded lengths of the two-call (budget) runs
MaxFileQ == 2        \* quality values 0..MaxFileQ passed to compress_file
MaxObjs == 2         \* objects per PDF document

\* ------------------------------------------------------------------------
\* Utilities
\* ------------------------------------------------------------------------
U8Max == 255
QualityMax == 100

clamp_u8(v, lohi_lo, lohi_hi) ==
    IF v < lohi_lo THEN lohi_lo ELSE IF v > lohi_hi THEN lohi_hi ELSE v

Min(a, b) == IF a <= b THEN a ELSE b
Max(a, b) == IF a >= b THEN a ELSE b

saturating_add_u8(a, b) == Min(a + b, U8Max)
saturating_sub_u8(a, b) == Max(a - b, 0)

\* ------------------------------------------------------------------------
\* Exact arithmetic for estimate_quality.  The products below exceed 32
\* bits for max_quality = 100, so naturals are kept as little-endian digit
\* sequences in base Base.
\* ------------------------------------------------------------------------
Base == 100 * 100

RECURSIVE BigMulCarry(_, _, _)
BigMulCarry(x, k, carry) ==
    IF x = <<>>
    THEN IF carry = 0 THEN <<>>
         ELSE <<carry % Base>> \o BigMulCarry(<<>>, k, carry \div Base)
    ELSE LET v == Head(x) * k + carry
         IN <<v % Base>> \o BigMulCarry(Tail(x), k, v \div Base)

BigMul(x, k) == BigMulCarry(x, k, 0)

RECURSIVE BigLessAt(_, _, _)
\* x < y for two digit sequences of the same length, compared from digit i down
BigLessAt(x, y, i) ==
    IF i = 0 THEN FALSE
    ELSE IF x[i] # y[i] THEN x[i] < y[i]
    ELSE BigLessAt(x, y, i - 1)

BigLess(x, y) ==
    IF Len(x) # Len(y) THEN Len(x) < Len(y) ELSE BigLessAt(x, y, Len(x))

\* a^5 * c^3 as a digit sequence (a, c >= 1)
Pow5Pow3(a, c) ==
    BigMul(BigMul(BigMul(BigMul(BigMul(BigMul(BigMul(BigMul(<<1>>,
        a), a), a), a), a), c), c), c)

\* ------------------------------------------------------------------------
\* estimate_quality (lib.rs 199-206)
\*   ratio     = clamp(target/current, 0.05, 1.0)
\*   predicted = round(max_quality * ratio^0.6)
\*   result    = clamp(predicted, 1, max_quality)
\* round(M * (n/d)^0.6) >= p  iff  (2p-1)^5 * d^3 <= (2M)^5 * n^3, so the
\* rounded value is the number of p in 1..M that satisfy the inequality.
\* The code computes in f32; for the lengths and budgets of this model the
\* exact value stays more than 2e-4 away from every half-integer, so the
\* f32 result rounds to the same integer.
\* ------------------------------------------------------------------------
RatioNum(current_bytes, target) ==
    IF 20 * target < current_bytes THEN 1
    ELSE IF target > current_bytes THEN 1 ELSE target

RatioDen(current_bytes, target) ==
    IF 20 * target < current_bytes THEN 20
    ELSE IF target > current_bytes THEN 1 ELSE current_bytes

Predicted(maxq, n, d) ==
    LET rhs == Pow5Pow3(2 * maxq, n)
    IN Cardinality({p \in 1..maxq : ~BigLess(rhs, Pow5Pow3(2 * p - 1, d))})

estimate_quality(maxq, current_bytes, target) ==
    IF current_bytes = 0 \/ target = 0 THEN maxq
    ELSE clamp_u8(Predicted(maxq, RatioNum(current_bytes, target),
                                  RatioDen(current_bytes, target)), 1, maxq)

\* ------------------------------------------------------------------------
\* Target-size search (lib.rs 239-310, 312-380, 382-426: the same code
\* around three encoders).  An encoding is [q, len]: the quality it was
\* produced at and its length.
\* ------------------------------------------------------------------------
MIN_TARGET_QUALITY == 1
\* (a loop that gives up one iteration early)
MaxIterationsShort == 6 - 1
MaxIterations == 6

None == <<>>
Some(x) == <<x>>
unwrap_or(opt, dflt) == IF opt = None THEN dflt ELSE opt[1]

Encode(enc, q) == [q |-> q, len |-> enc[q]]

\* lines 340-348: the loop's state after the encode at max_quality missed
SearchStart(enc, maxq, target) ==
    LET min_quality == Min(MIN_TARGET_QUALITY, maxq)
        best == Encode(enc, maxq)
        estimate == estimate_quality(maxq, best.len, target)
    IN [lo |-> min_quality,
        hi |-> IF estimate > min_quality /\ estimate < maxq
               THEN estimate ELSE maxq,
        iterations |-> 0,
        best_under |-> None,
        smallest |-> best,
        tried |-> {maxq},
        broke |-> FALSE]

\* line 351: while lo <= hi && iterations < 6 (and no break)
LoopCond(s) == s.lo <= s.hi /\ s.iterations < MaxIterations /\ ~s.broke

\* (a loop that keeps the first fitting encoding instead of the last)
LoopBodyKeepsFirst(s, enc, target) ==
    LET mid_q == (s.lo + s.hi) \div 2
        out == [q |-> mid_q, len |-> enc[mid_q]]
        small == IF out.len < s.smallest.len THEN out ELSE s.smallest
    IN IF out.len <= target
       THEN [s EXCEPT !.smallest = small, !.tried = @ \cup {mid_q},
                      !.best_under = IF @ = <<>> THEN <<out>> ELSE @,
                      !.lo = saturating_add_u8(mid_q, 1),
                      !.iterations = @ + 1]
       ELSE [s EXCEPT !.smallest = small, !.tried = @ \cup {mid_q},
                      !.hi = saturating_sub_u8(mid_q, 1),
                      !.iterations = @ + 1]

\* (a loop that never updates smallest)
LoopBodyStaleSmallest(s, enc, target) ==
    LET mid_q == (s.lo + s.hi) \div 2
        out == [q |-> mid_q, len |-> enc[mid_q]]
    IN IF out.len <= target
       THEN [s EXCEPT !.tried = @ \cup {mid_q},
                      !.best_under = <<out>>,
                      !.lo = saturating_add_u8(mid_q, 1),
                      !.iterations = @ + 1]
       ELSE [s EXCEPT !.tried = @ \cup {mid_q},
                      !.hi = saturating_sub_u8(mid_q, 1),
                      !.iterations = @ + 1]

\* lines 352-376: one iteration of the loop
LoopBody(s, enc, target) ==
    LET mid_q == (s.lo + s.hi) \div 2
        out == Encode(enc, mid_q)
        small == IF out.len < s.smallest.len THEN out ELSE s.smallest
    IN IF out.len <= target
       THEN [s EXCEPT !.smallest = small, !.tried = @ \cup {mid_q},
                      !.best_under = Some(out),
                      !.lo = saturating_add_u8(mid_q, 1),
                      !.iterations = @ + 1]
       ELSE IF mid_q = 0
       THEN [s EXCEPT !.smallest = small, !.tried = @ \cup {mid_q},
                      !.broke = TRUE]
       ELSE [s EXCEPT !.smallest = small, !.tried = @ \cup {mid_q},
                      !.hi = saturating_sub_u8(mid_q, 1),
                      !.iterations = @ + 1]

\* line 379: best_under.unwrap_or(smallest)
SearchResult(s) == unwrap_or(s.best_under, s.smallest)

RECURSIVE RunLoop(_, _, _)
RunLoop(s, enc, target) ==
    IF LoopCond(s) THEN RunLoop(LoopBody(s, enc, target), enc, target) ELSE s

\* the whole call, as compress_file makes it
compress_to_target(enc, raw_max_quality, target) ==
    LET maxq == clamp_u8(raw_max_quality, 1, QualityMax)
        best == Encode(enc, maxq)
    IN IF best.len <= target THEN best
       ELSE SearchResult(RunLoop(SearchStart(enc, maxq, target), enc, target))

\* ---- the search as a state machine -------------------------------------
Cur == [lo |-> lo, hi |-> hi, iterations |-> iterations,
        best_under |-> best_under, smallest |-> smallest, tried |-> tried,
        broke |-> pc = "broke"]

SetLoop(s) ==
    /\ lo' = s.lo
    /\ hi' = s.hi
    /\ iterations' = s.iterations
    /\ best_under' = s.best_under
    /\ smallest' = s.smallest
    /\ tried' = s.tried

Targets == 0..MaxTarget

\* lines 323-338 then 340-348: a call with budget t on the current input
Call(t) ==
    /\ pc \in {"idle", "done"}
    /\ callsLeft > 0
    /\ callsLeft' = callsLeft - 1
    /\ prev' = IF pc = "done"
               THEN Some([target |-> target_bytes, len |-> result[1].len])
               ELSE None
    /\ target_bytes' = t
    /\ LET best == Encode(encLen, max_quality)
       IN IF best.len <= t
          THEN /\ pc' = "done"
               /\ result' = Some(best)
               /\ SetLoop([lo |-> 0, hi |-> 0, iterations |-> 0,
                           best_under |-> None, smallest |-> best,
                           tried |-> {max_quality}])
          ELSE /\ pc' = "loop"
               /\ result' = None
               /\ SetLoop(SearchStart(encLen, max_quality, t))
    /\ UNCHANGED <<encLen, max_quality, fileVars, pdfVars>>

\* lines 351-377
Iterate ==
    /\ pc = "loop"
    /\ LoopCond(Cur)
    /\ LET n == LoopBody(Cur, encLen, target_bytes)
       IN /\ SetLoop(n)
          /\ pc' = IF n.broke THEN "broke" ELSE "loop"
    /\ UNCHANGED <<encLen, max_quality, target_bytes, result, callsLeft, prev,
                   fileVars, pdfVars>>

\* line 379
Return ==
    /\ pc \in {"loop", "broke"}
    /\ ~LoopCond(Cur)
    /\ result' = Some(SearchResult(Cur))
    /\ pc' = "done"
    /\ UNCHANGED <<encLen, max_quality, target_bytes, lo, hi, iterations,
                   best_under, smallest, tried, callsLeft, prev, fileVars,
                   pdfVars>>

\* ------------------------------------------------------------------------
\* Format classifier (lib.rs 41-72).  mime and ext are strings; `contains`
\* is tabulated for the mime strings of the model.
\* ------------------------------------------------------------------------
Contains(mime, sub) ==
    <<mime, sub>> \in {<<"application/pdf", "pdf">>, <<"image/png", "png">>,
                       <<"image/jpeg", "jpeg">>, <<"image/jpg", "jpg">>}

to_lowercase(str) ==
    CASE str = "Image/PNG" -> "image/png"
      [] str = "PDF" -> "pdf"
      [] str = "JPG" -> "jpg"
      [] OTHER -> str

choose_out_mode(mime, ext, out_mode_sel) ==
    IF out_mode_sel # "auto" THEN out_mode_sel
    ELSE IF Contains(mime, "pdf") \/ ext = "pdf" THEN "pdf"
    ELSE IF Contains(mime, "png") \/ ext = "png" THEN "png"
    ELSE "jpeg"

\* bytes is [len, head]: head stands for the first four bytes
is_pdf(mime, ext, bytes) ==
    IF Contains(mime, "pdf") \/ ext = "pdf" THEN TRUE
    ELSE bytes.len >= 4 /\ bytes.head = "%PDF"

input_kind(mime, ext) ==
    IF Contains(mime, "pdf") \/ ext = "pdf" THEN "pdf"
    ELSE IF Contains(mime, "png") \/ ext = "png" THEN "png"
    ELSE IF Contains(mime, "jpg") \/ Contains(mime, "jpeg")
            \/ ext = "jpg" \/ ext = "jpeg" THEN "jpeg"
    ELSE "unknown"

\* lib.rs 74-86: round(w * max_side / m), at least 1, for m = max(w, h)
ScaleRound(x, max_side, m) == Max((2 * x * max_side + m) \div (2 * m), 1)

scale_to_max_side(w, h, max_side) ==
    IF max_side = 0 THEN <<w, h>>
    ELSE IF Max(w, h) <= max_side THEN <<w, h>>
    ELSE <<ScaleRound(w, max_side, Max(w, h)), ScaleRound(h, max_side, Max(w, h))>>

\* ------------------------------------------------------------------------
\* compress_file (lib.rs 429-545).  A buffer is [src, q, len]: "orig" is the
\* input itself, "enc" an encoder's output at quality q, "new" an empty Vec.
\* ------------------------------------------------------------------------
OrigBuf(bytes) == [src |-> "orig", q |-> 0, len |-> bytes.len]
EncBuf(e) == [src |-> "enc", q |-> e.q, len |-> e.len]
NewBuf == [src |-> "new", q |-> 0, len |-> 0]

Ok(bytes, out_mode) == [ok |-> TRUE, bytes |-> bytes, out_mode |-> out_mode]
DecodeFailed == [ok |-> FALSE, bytes |-> NewBuf, out_mode |-> "Decode failed"]

\* (a resolution that trusts an explicit "pdf" selection on raster input)
ResolveKeepsPdfSelection(mime, ext, bytes, out_mode_sel, bg_transparent) ==
    IF is_pdf(mime, ext, bytes) THEN "pdf"
    ELSE LET m == choose_out_mode(mime, ext, out_mode_sel)
         IN IF bg_transparent /\ m = "jpeg" /\ input_kind(mime, ext) = "png"
            THEN "png" ELSE m

\* (a resolution without the transparency override)
ResolveDropsTransparency(mime, ext, bytes, out_mode_sel, bg_transparent) ==
    IF is_pdf(mime, ext, bytes) THEN "pdf"
    ELSE LET m == choose_out_mode(mime, ext, out_mode_sel)
         IN IF m = "pdf" THEN choose_out_mode(mime, ext, "auto") ELSE m

\* lines 454-465: the output mode (mime and ext already lower-cased)
resolve_out_mode(mime, ext, bytes, out_mode_sel, bg_transparent) ==
    LET kind == input_kind(mime, ext)
        is_pdf_input == is_pdf(mime, ext, bytes)
        m0 == choose_out_mode(mime, ext, out_mode_sel)
        m1 == IF is_pdf_input THEN "pdf"
              ELSE IF m0 = "pdf" THEN choose_out_mode(mime, ext, "auto")
              ELSE m0
    IN IF bg_transparent /\ m1 = "jpeg" /\ kind = "png" THEN "png" ELSE m1

\* line 469: target_kb.saturating_mul(1024) on a u32.  The product stays
\* below 2^31 up to target_kb = 2097151; above it the budget is larger than
\* any length of the model, and is held at 2^31 - 1.
TargetBytes(target_kb) ==
    IF target_kb > 2097151 THEN 2147483647 ELSE target_kb * 1024

\* (a guard that lets an encoding as long as the input through)
NeverLargerStrict(enc_bytes, bytes, target, resized, kind, mode) ==
    IF target = 0 /\ ~resized /\ kind = mode /\ enc_bytes.len > bytes.len
    THEN Ok(OrigBuf(bytes), mode)
    ELSE Ok(EncBuf(enc_bytes), mode)

\* lines 520-523 (mode "png") and 541-544 (mode "jpeg")
never_larger(enc_bytes, bytes, target, resized, kind, mode) ==
    IF target = 0 /\ ~resized /\ kind = mode /\ enc_bytes.len >= bytes.len
    THEN Ok(OrigBuf(bytes), mode)
    ELSE Ok(EncBuf(enc_bytes), mode)

\* The encoder of a call: a.enc is the length, at each quality, of the
\* output of the encoder the call ends up using (on the decoded and
\* possibly resized pixels, or on the PDF).  A PDF that cannot be parsed
\* comes back from compress_pdf_images as it is, at every quality.
Resized(a) ==
    scale_to_max_side(a.w, a.h, a.max_side) # <<a.w, a.h>>

compress_file(a) ==
    IF a.bytes.len = 0 THEN Ok(NewBuf, "jpeg")
    ELSE
    LET mime == to_lowercase(a.mime)
        ext == to_lowercase(a.ext)
        kind == input_kind(mime, ext)
        out_mode == resolve_out_mode(mime, ext, a.bytes, a.out_mode_sel,
                                     a.bg_transparent)
        quality == clamp_u8(a.quality, 1, QualityMax)
        target == TargetBytes(a.target_kb)
        enc_bytes == IF target > 0
                     THEN compress_to_target(a.enc, quality, target)
                     ELSE Encode(a.enc, quality)
    IN IF out_mode = "pdf"
       THEN IF a.bytes.pdf_ok THEN Ok(EncBuf(enc_bytes), "pdf")
            ELSE Ok(OrigBuf(a.bytes), "pdf")
       ELSE IF ~a.bytes.image THEN DecodeFailed
       ELSE IF out_mode = "png"
       THEN never_larger(enc_bytes, a.bytes, target, Resized(a), kind, "png")
       ELSE never_larger(enc_bytes, a.bytes, target, Resized(a), kind, "jpeg")

CompressFile ==
    /\ ret = None
    /\ ret' = Some(compress_file(args))
    /\ UNCHANGED <<searchVars, args, pdfVars>>

\* ------------------------------------------------------------------------
\* compress_pdf_images (lib.rs 547-668).
\* PDF bytes are [empty, parse_ok, save_ok, serial, objs]: whether
\* Document::load_mem parses them, whether save_to succeeds on the document
\* they hold, how many times they went through save_to (re-serialised
\* bytes are not the bytes that were loaded), and the objects load_mem
\* yields.  An object is a record of what the code reads from it:
\*   stream    it is an Object::Stream
\*   subtype   the Subtype entry
\*   filters   stream.filters(): [ok, names]
\*   width, height, bits, colorspace   dictionary entries, as values
\*   decoded   stream.decompressed_content(): [ok, len]
\*   jpeg_ok   jpeg::encode succeeds on its pixels (it depends on the
\*             pixels and dimensions; quality and preset are clamped)
\*   parms     a DecodeParms entry is present
\*   content   the stream's content: [kind, q]
\* A dictionary value is [t, i, n]: an integer i, a name n, absent, or
\* something else (a real, an array, a reference).
\* ------------------------------------------------------------------------
Integer(i) == [t |-> "int", i |-> i, n |-> ""]
Name(n) == [t |-> "name", i |-> 0, n |-> n]
Absent == [t |-> "absent", i |-> 0, n |-> ""]
Other == [t |-> "other", i |-> 0, n |-> ""]

FlateContent == [kind |-> "flate", q |-> 0]
JpegContent(q) == [kind |-> "jpeg", q |-> q]

\* (an eligibility test that forgets the filter check)
PassesFilterAny(o) == o.filters.ok

\* lines 573-579
PassesFilter(o) ==
    o.filters.ok /\ Len(o.filters.names) = 1
        /\ o.filters.names[1] = "FlateDecode"

\* lines 589-599: a missing or non-integer BitsPerComponent counts as 8
Bits(o) == IF o.bits.t = "int" THEN o.bits.i ELSE 8

\* lines 563-644: every `continue` of the loop body; TRUE when the object
\* reaches the rewrite at line 646
should_rewrite(o) ==
    /\ o.stream
    /\ o.subtype = Name("Image")
    /\ PassesFilter(o)
    /\ o.width.t = "int" /\ o.width.i > 0
    /\ o.height.t = "int" /\ o.height.i > 0
    /\ Bits(o) = 8
    /\ o.colorspace \in {Name("DeviceRGB"), Name("DeviceGray")}
    /\ o.decoded.ok
    /\ o.width.i * o.height.i > 0
    /\ IF o.colorspace = Name("DeviceRGB")
       THEN o.decoded.len = o.width.i * o.height.i * 3
       ELSE o.decoded.len = o.width.i * o.height.i
    /\ o.jpeg_ok

\* (a rewrite made on a copy of the stream: the document keeps the old one)
RewriteOnCopy(o, quality) == o

\* lines 646-654.  The new content is JPEG data, which is not what
\* decompressed_content can inflate.
rewrite_stream(o, quality) ==
    [o EXCEPT !.content = JpegContent(quality),
              !.filters = [ok |-> TRUE, names |-> <<"DCTDecode">>],
              !.colorspace = Name("DeviceRGB"),
              !.bits = Integer(8),
              !.parms = FALSE,
              !.decoded = [ok |-> FALSE, len |-> 0]]

\* lines 562-656: the loop over doc.objects
rewrite_objects(objs, quality) ==
    [i \in DOMAIN objs |->
        IF should_rewrite(objs[i]) THEN rewrite_stream(objs[i], quality)
        ELSE objs[i]]

\* (a finalization that serialises the document whether or not it changed)
FinalizeAlwaysSaves(pdf, objs, changed) ==
    IF pdf.save_ok
    THEN [pdf EXCEPT !.objs = objs, !.serial = @ + 1, !.parse_ok = TRUE]
    ELSE pdf

\* lines 658-667.  The bytes save_to writes are new bytes (serial + 1) that
\* load_mem parses back into the objects that were saved.
finalize(pdf, objs, changed) ==
    IF ~changed THEN pdf
    ELSE IF pdf.save_ok
    THEN [pdf EXCEPT !.objs = objs, !.serial = @ + 1, !.parse_ok = TRUE]
    ELSE pdf

compress_pdf_images(pdf, raw_quality) ==
    IF pdf.empty THEN pdf
    ELSE IF ~pdf.parse_ok THEN pdf
    ELSE LET quality == clamp_u8(raw_quality, 1, QualityMax)
             changed == \E i \in DOMAIN pdf.objs : should_rewrite(pdf.objs[i])
         IN finalize(pdf, rewrite_objects(pdf.objs, quality), changed)

PdfQualities == {0, 50, 200}

CompressPdf(q) ==
    /\ pdfIn # None
    /\ pdfOut = None
    /\ pdfOut' = Some(compress_pdf_images(pdfIn[1], q))
    /\ UNCHANGED <<searchVars, fileVars, pdfIn, pdfOut2>>

\* compress_pdf_images on its own output
CompressPdfAgain(q) ==
    /\ pdfOut # None
    /\ pdfOut2 = None
    /\ pdfOut2' = Some(compress_pdf_images(pdfOut[1], q))
    /\ UNCHANGED <<searchVars, fileVars, pdfIn, pdfOut>>

PdfIdle == pdfIn = None /\ pdfOut = None /\ pdfOut2 = None

\* ---- inputs of compress_pdf_images --------------------------------------
\* a 2x1 DeviceRGB image, 8 bits, one FlateDecode filter, six bytes inflated
RgbImage ==
    [stream |-> TRUE, subtype |-> Name("Image"),
     filters |-> [ok |-> TRUE, names |-> <<"FlateDecode">>],
     width |-> Integer(2), height |-> Integer(1), bits |-> Integer(8),
     colorspace |-> Name("DeviceRGB"),
     decoded |-> [ok |-> TRUE, len |-> 6],
     jpeg_ok |-> TRUE, parms |-> TRUE, content |-> FlateContent]

GrayImage ==
    [RgbImage EXCEPT !.colorspace = Name("DeviceGray"),
                     !.decoded = [ok |-> TRUE, len |-> 2], !.parms = FALSE]

PdfObjects ==
    {RgbImage, GrayImage,
     [RgbImage EXCEPT !.bits = Absent],
     [GrayImage EXCEPT !.bits = Other],
     [RgbImage EXCEPT !.bits = Integer(1)],
     [RgbImage EXCEPT !.stream = FALSE],
     [RgbImage EXCEPT !.subtype = Name("Form")],
     [GrayImage EXCEPT !.subtype = Absent],
     [RgbImage EXCEPT !.filters = [ok |-> TRUE, names |-> <<"DCTDecode">>],
                      !.content = JpegContent(80),
                      !.decoded = [ok |-> FALSE, len |-> 0]],
     [RgbImage EXCEPT !.filters =
         [ok |-> TRUE, names |-> <<"ASCII85Decode", "FlateDecode">>]],
     [RgbImage EXCEPT !.filters = [ok |-> FALSE, names |-> <<>>]],
     [RgbImage EXCEPT !.width = Absent],
     [RgbImage EXCEPT !.width = Integer(0), !.decoded = [ok |-> TRUE, len |-> 0]],
     [GrayImage EXCEPT !.height = Other],
     [GrayImage EXCEPT !.height = Integer(-1)],
     [RgbImage EXCEPT !.colorspace = Name("DeviceCMYK"),
                      !.decoded = [ok |-> TRUE, len |-> 8]],
     [RgbImage EXCEPT !.colorspace = Other],
     [GrayImage EXCEPT !.colorspace = Absent],
     [RgbImage EXCEPT !.decoded = [ok |-> TRUE, len |-> 2]],
     [GrayImage EXCEPT !.decoded = [ok |-> TRUE, len |-> 6]],
     [RgbImage EXCEPT !.decoded = [ok |-> FALSE, len |-> 0]],
     [GrayImage EXCEPT !.jpeg_ok = FALSE]}

RECURSIVE SeqsUpTo(_, _)
SeqsUpTo(S, n) ==
    IF n = 0 THEN {<<>>}
    ELSE LET shorter == SeqsUpTo(S, n - 1)
         IN shorter \cup {Append(q, x) : q \in {r \in shorter : Len(r) = n - 1},
                                          x \in S}

PdfInputs ==
    {[empty |-> TRUE, parse_ok |-> FALSE, save_ok |-> TRUE, serial |-> 0,
      objs |-> <<>>]}
    \cup {[empty |-> FALSE, parse_ok |-> p, save_ok |-> sv, serial |-> 0,
           objs |-> os] :
            p \in BOOLEAN, sv \in BOOLEAN, os \in SeqsUpTo(PdfObjects, MaxObjs)}

\* ---- inputs --------------------------------------------------------------
NonDecreasing(enc) ==
    \A q1, q2 \in DOMAIN enc : q1 <= q2 => enc[q1] <= enc[q2]

\* a two-level encoder: length a up to quality k, length b above it
StepEncoder(maxq, k, a, b) == [q \in 1..maxq |-> IF q <= k THEN a ELSE b]

StepEncoders(maxq) ==
    {StepEncoder(maxq, k, a, b) : k \in 0..maxq,
        a \in 1..MaxLen, b \in 1..MaxLen}

\* An encoder returns an empty buffer only for a buffer shorter than
\* width*height*4 or a zero area (lines 126-129, 175-178), whatever the
\* quality: its output is empty at every quality or at none.
FailingEncoder(maxq) == [q \in 1..maxq |-> 0]

\* every encoder for a small max_quality; two-level ones for the largest
Encoders(maxq) ==
    {FailingEncoder(maxq)} \cup
    (IF maxq <= MaxQ THEN [1..maxq -> 1..MaxLen] ELSE StepEncoders(maxq))

\* ---- inputs of compress_file --------------------------------------------
Mimes == {"application/pdf", "Image/PNG", "image/jpeg", "image/jpg", ""}
Exts == {"PDF", "png", "JPG", "jpeg", ""}
OutModeSels == {"auto", "jpeg", "png", "pdf", "webp"}
FileLens == {512, 1024, 2048}
FileEncLens == {512, 1536}
Dims == {<<1, 1>>, <<2, 1>>, <<2, 3>>}
MaxSides == {0, 1, 2}

Bytes(len, head, image, pdf_ok) ==
    [len |-> len, head |-> head, image |-> image, pdf_ok |-> pdf_ok]

InputBytes ==
    {Bytes(0, "", FALSE, FALSE), Bytes(3, "%PD", FALSE, FALSE),
     Bytes(1024, "%PDF", FALSE, TRUE), Bytes(1024, "%PDF", FALSE, FALSE),
     Bytes(1024, "junk", FALSE, FALSE)}
    \cup {Bytes(n, "img", TRUE, FALSE) : n \in FileLens}

FileEncoders ==
    {FailingEncoder(Max(MaxFileQ, 1))} \cup [1..Max(MaxFileQ, 1) -> FileEncLens]

FileArgsOf(b) ==
    {[bytes |-> b, mime |-> m, ext |-> e, out_mode_sel |-> s,
      bg_transparent |-> t, quality |-> q, target_kb |-> k,
      max_side |-> ms, w |-> d[1], h |-> d[2], enc |-> f] :
        m \in Mimes, e \in Exts, s \in OutModeSels,
        t \in BOOLEAN, q \in {0, MaxFileQ}, k \in {0, 1},
        ms \in (IF b.image THEN MaxSides ELSE {0}),
        d \in (IF b.image THEN Dims ELSE {<<1, 1>>}),
        f \in (IF b.image \/ b.pdf_ok THEN FileEncoders
               ELSE {FailingEncoder(Max(MaxFileQ, 1))})}

NoArgs == [bytes |-> Bytes(0, "", FALSE, FALSE)]

RawQualities == (0..MaxQ) \cup {QualityMax, U8Max}

SearchIdle(calls) ==
    /\ target_bytes = 0
    /\ lo = 0 /\ hi = 0 /\ iterations = 0
    /\ best_under = None
    /\ smallest = [q |-> 0, len |-> 0]
    /\ tried = {}
    /\ result = None
    /\ pc = "idle"
    /\ callsLeft = calls
    /\ prev = None

Init ==
    /\ \E raw \in RawQualities :
          /\ max_quality = clamp_u8(raw, 1, QualityMax)
          /\ encLen \in Encoders(max_quality)
    /\ SearchIdle(1)
    /\ args = NoArgs /\ ret = None
    /\ PdfIdle

Next ==
    \/ \E t \in Targets : Call(t)
    \/ Iterate
    \/ Return

Spec == Init /\ [][Next]_vars

\* Two calls on the same input with two budgets; the encoders are the
\* non-decreasing ones.
InitBudget ==
    /\ max_quality \in 1..MaxQ
    /\ encLen \in {e \in [1..max_quality -> 1..MaxBudgetLen] : NonDecreasing(e)}
    /\ SearchIdle(2)
    /\ args = NoArgs /\ ret = None
    /\ PdfIdle

SpecBudget == InitBudget /\ [][Next]_vars

\* compress_file, called once on each input
InitFile ==
    /\ encLen = <<>> /\ max_quality = 1
    /\ SearchIdle(0)
    /\ \E b \in InputBytes : args \in FileArgsOf(b)
    /\ ret = None
    /\ PdfIdle

NextFile == CompressFile

SpecFile == InitFile /\ [][NextFile]_vars

\* compress_pdf_images, called on a PDF and then on what it returned
InitPdf ==
    /\ encLen = <<>> /\ max_quality = 1
    /\ SearchIdle(0)
    /\ args = NoArgs /\ ret = None
    /\ pdfIn \in {Some(b) : b \in PdfInputs}
    /\ pdfOut = None /\ pdfOut2 = None

NextPdf ==
    \/ \E q \in PdfQualities : CompressPdf(q)
    \/ \E q \in PdfQualities : CompressPdfAgain(q)

SpecPdf == InitPdf /\ [][NextPdf]_vars

\* ------------------------------------------------------------------------
\* Properties of the target-size search
\* ------------------------------------------------------------------------
Qualities == 1..max_quality
Fits(q) == encLen[q] <= target_bytes
SetMax(S) == CHOOSE x \in S : \A y \in S : y <= x
SetMin(S) == CHOOSE x \in S : \A y \in S : x <= y
Returned == pc = "done" /\ result # None

\* C1 (as stated): whenever some quality in [1, max_quality] has an encoding
\* of length <= target_bytes (> 0), the returned buffer has length
\* <= target_bytes.
C1_FitsWheneverSomeQualityFits ==
    (Returned /\ target_bytes > 0 /\ \E q \in Qualities : Fits(q))
        => result[1].len <= target_bytes

\* C1 (amended): the same, for an encoder whose output length does not
\* decrease as quality grows.
C1_FitsWhenEncoderNonDecreasing ==
    (Returned /\ target_bytes > 0 /\ NonDecreasing(encLen)
        /\ \E q \in Qualities : Fits(q))
        => result[1].len <= target_bytes

\* C1 witness: max_quality 100, only quality 1 fits, and the sixth and last
\* iteration reaches it.
C1_Witness ==
    /\ Returned /\ target_bytes > 0 /\ NonDecreasing(encLen)
    /\ max_quality = QualityMax
    /\ Fits(1) /\ ~Fits(2)
    /\ iterations = MaxIterations
    /\ result[1].q = 1 /\ result[1].len <= target_bytes

\* C2 (as stated): of two calls on the same input, encoder and max_quality,
\* the one with the smaller budget never returns the longer buffer.
C2_MonotoneInBudget ==
    (Returned /\ prev # None /\ target_bytes > 0
        /\ target_bytes <= prev[1].target)
        => result[1].len <= prev[1].len

\* C3 (as stated): the returned buffer is the encoding at the highest
\* quality in [1, max_quality] that fits, whenever one fits.  Buffers are
\* compared by length, so that two equal encodings made at different
\* qualities count as the same buffer.
C3_HighestFittingQuality ==
    (Returned /\ target_bytes > 0 /\ \E q \in Qualities : Fits(q))
        => result[1].len = encLen[SetMax({q \in Qualities : Fits(q)})]

\* The statement of C3 restricted to encoders whose length does not
\* decrease with quality; the narrowing of hi breaks this one too.
C3_HighestFittingQualityNonDecreasing ==
    (Returned /\ target_bytes > 0 /\ NonDecreasing(encLen)
        /\ \E q \in Qualities : Fits(q))
        => result[1].len = encLen[SetMax({q \in Qualities : Fits(q)})]

\* C3 (amended): the returned buffer is the encoding at the highest quality
\* that fits among the qualities the call encoded at (max_quality and the
\* loop's midpoints), whenever one of those fits.
C3_HighestFittingAmongTried ==
    (Returned /\ target_bytes > 0 /\ \E q \in tried : Fits(q))
        => result[1] = Encode(encLen, SetMax({q \in tried : Fits(q)}))

\* C3 witness: a search returned a fitting encoding although a higher
\* quality, never encoded at, fits with a different length.
C3_Witness ==
    /\ Returned /\ target_bytes > 0 /\ best_under # None
    /\ result[1].len <= target_bytes
    /\ \E q \in Qualities \ tried :
          q > result[1].q /\ Fits(q) /\ encLen[q] # result[1].len

\* C9: if no encoding made during the call fits, the returned buffer has the
\* minimum length over the encodings made; if one fits, the returned buffer
\* fits, and it is best_under whenever best_under was recorded.
C9_FallbackIsSmallestTried ==
    Returned =>
        /\ (~\E q \in tried : Fits(q))
              => result[1].len = SetMin({encLen[q] : q \in tried})
        /\ (\E q \in tried : Fits(q)) => result[1].len <= target_bytes
        /\ best_under # None => result[1] = best_under[1]

\* C9 witness: nothing fitted in a search of several midpoints and the
\* returned buffer is a midpoint's, shorter than the one at max_quality.
C9_Witness ==
    /\ Returned /\ target_bytes > 0
    /\ ~\E q \in tried : Fits(q)
    /\ Cardinality(tried) >= 3
    /\ result[1].q # max_quality
    /\ result[1].len < encLen[max_quality]

\* ------------------------------------------------------------------------
\* Properties of compress_file
\* ------------------------------------------------------------------------
LMime == to_lowercase(args.mime)
LExt == to_lowercase(args.ext)
NonEmptyCall == ret # None /\ args.bytes.len > 0

\* the input is a PDF: mime contains "pdf", or ext is "pdf", or the first
\* four bytes are %PDF
InputIsPdf ==
    \/ Contains(LMime, "pdf")
    \/ LExt = "pdf"
    \/ (args.bytes.len >= 4 /\ args.bytes.head = "%PDF")

\* C4: for a non-empty input and any out_mode_sel, the returned out_mode is
\* "pdf" if and only if the input is a PDF; a PDF input always returns.
C4_PdfIffIsPdf ==
    NonEmptyCall =>
        /\ InputIsPdf => (ret[1].ok /\ ret[1].out_mode = "pdf")
        /\ (ret[1].ok /\ ret[1].out_mode = "pdf") => InputIsPdf

\* C4 witness: bytes starting %PDF with a jpeg mime and out_mode_sel = "jpeg"
\* came back tagged "pdf".
C4_Witness ==
    /\ NonEmptyCall
    /\ args.bytes.head = "%PDF" /\ LMime = "image/jpeg" /\ LExt = "jpeg"
    /\ args.out_mode_sel = "jpeg"
    /\ ret[1].ok /\ ret[1].out_mode = "pdf"

\* C5: a non-empty, decodable, non-PDF input of kind png with
\* bg_transparent = TRUE returns out_mode "png" for every out_mode_sel in
\* {"auto", "jpeg", "png", "pdf"}.
C5_TransparentPngStaysPng ==
    (NonEmptyCall /\ args.bytes.image /\ ~InputIsPdf
        /\ (Contains(LMime, "png") \/ LExt = "png")
        /\ args.bg_transparent
        /\ args.out_mode_sel \in {"auto", "jpeg", "png", "pdf"})
        => (ret[1].ok /\ ret[1].out_mode = "png")

\* C5 witness: an explicit "jpeg" selection on a transparent PNG came back
\* tagged "png".
C5_Witness ==
    /\ NonEmptyCall /\ args.bytes.image /\ ~InputIsPdf
    /\ LMime = "image/png" /\ args.bg_transparent
    /\ args.out_mode_sel = "jpeg"
    /\ ret[1].ok /\ ret[1].out_mode = "png"

FreshEncoding == Encode(args.enc, clamp_u8(args.quality, 1, QualityMax))
InputKindIsMode ==
    \/ ret[1].out_mode = "png" /\ (Contains(LMime, "png") \/ LExt = "png")
    \/ /\ ret[1].out_mode = "jpeg"
       /\ ~(Contains(LMime, "png") \/ LExt = "png")
       /\ (Contains(LMime, "jpg") \/ Contains(LMime, "jpeg")
              \/ LExt = "jpg" \/ LExt = "jpeg")
WasResized ==
    scale_to_max_side(args.w, args.h, args.max_side) # <<args.w, args.h>>

\* C10: for a decodable raster input with target_kb = 0, no resize and the
\* input kind equal to the output mode, the returned bytes are never longer
\* than the input: the input itself comes back when the fresh encoding is at
\* least as long, the fresh encoding otherwise.  With target_kb > 0 or after
\* a resize the encoder's output comes back whatever its length.
C10_NeverLargerGuard ==
    (NonEmptyCall /\ ret[1].ok /\ ret[1].out_mode \in {"png", "jpeg"}) =>
        /\ (args.target_kb = 0 /\ ~WasResized /\ InputKindIsMode) =>
              /\ ret[1].bytes.len <= args.bytes.len
              /\ FreshEncoding.len >= args.bytes.len
                    => ret[1].bytes = OrigBuf(args.bytes)
              /\ FreshEncoding.len < args.bytes.len
                    => ret[1].bytes = EncBuf(FreshEncoding)
        /\ (args.target_kb > 0 \/ WasResized) => ret[1].bytes.src = "enc"

\* C10 witness: a jpeg re-encoded to exactly the input's length came back as
\* the input itself.
C10_Witness ==
    /\ NonEmptyCall /\ ret[1].ok /\ ret[1].out_mode = "jpeg"
    /\ args.target_kb = 0 /\ ~WasResized /\ InputKindIsMode
    /\ FreshEncoding.len = args.bytes.len
    /\ ret[1].bytes = OrigBuf(args.bytes)

\* the guard is off: a longer output after a resize
C10_GuardOffSeen ==
    /\ NonEmptyCall /\ ret[1].ok /\ WasResized /\ args.target_kb = 0
    /\ InputKindIsMode /\ ret[1].bytes.len > args.bytes.len

\* ------------------------------------------------------------------------
\* Properties of compress_pdf_images
\* ------------------------------------------------------------------------
InPdf == pdfIn[1]
OutPdf == pdfOut[1]

OneFlateFilter(o) == o.filters.ok /\ o.filters.names = <<"FlateDecode">>
PositiveInt(v) == v.t = "int" /\ v.i >= 1
RgbOrGray(o) ==
    o.colorspace = Name("DeviceRGB") \/ o.colorspace = Name("DeviceGray")
DecodedLengthMatches(o) ==
    /\ o.decoded.ok
    /\ o.colorspace = Name("DeviceRGB")
          => o.decoded.len = 3 * o.width.i * o.height.i
    /\ o.colorspace = Name("DeviceGray")
          => o.decoded.len = o.width.i * o.height.i

\* the eligibility conditions as C6 lists them
EligibleAsClaimed(o) ==
    /\ o.stream /\ o.subtype = Name("Image")
    /\ OneFlateFilter(o)
    /\ PositiveInt(o.width) /\ PositiveInt(o.height)
    /\ o.bits = Integer(8)
    /\ RgbOrGray(o)
    /\ DecodedLengthMatches(o)

\* the same, with a BitsPerComponent that is absent or not an integer
\* accepted as well
EligibleOrBitsMissing(o) ==
    /\ o.stream /\ o.subtype = Name("Image")
    /\ OneFlateFilter(o)
    /\ PositiveInt(o.width) /\ PositiveInt(o.height)
    /\ (o.bits = Integer(8) \/ o.bits.t # "int")
    /\ RgbOrGray(o)
    /\ DecodedLengthMatches(o)

\* C6 (as stated): an object is modified only if it is an Image stream with
\* exactly one filter, FlateDecode, positive integer Width and Height,
\* BitsPerComponent equal to 8, ColorSpace DeviceRGB or DeviceGray and a
\* decompressed length of width*height*3 (RGB) or width*height (Gray);
\* every other object is left as it was.
C6_ModifiedOnlyIfEligible ==
    pdfOut # None =>
        \A i \in DOMAIN InPdf.objs :
            OutPdf.objs[i] # InPdf.objs[i] => EligibleAsClaimed(InPdf.objs[i])

\* C6 (amended): the same, where the BitsPerComponent condition is "equal
\* to 8, or absent, or not an integer".
C6_ModifiedOnlyIfEligibleOrBitsMissing ==
    pdfOut # None =>
        \A i \in DOMAIN InPdf.objs :
            OutPdf.objs[i] # InPdf.objs[i]
                => EligibleOrBitsMissing(InPdf.objs[i])

\* C6 witness: a document in which an image without BitsPerComponent was
\* rewritten and an ineligible object was left as it was.
C6_Witness ==
    /\ pdfOut # None
    /\ \E i, j \in DOMAIN InPdf.objs :
          /\ InPdf.objs[i].bits = Absent
          /\ OutPdf.objs[i] # InPdf.objs[i]
          /\ OutPdf.objs[i].filters.names = <<"DCTDecode">>
          /\ ~EligibleOrBitsMissing(InPdf.objs[j])
          /\ OutPdf.objs[j] = InPdf.objs[j]

\* C7: compress_pdf_images applied to its own output, at any quality,
\* returns that output unchanged.
C7_Idempotent ==
    pdfOut2 # None => pdfOut2[1] = pdfOut[1]

\* C7 witness: the first call rewrote an image and re-serialised the
\* document, next to an eligible image the encoder failed on; the second
\* call returned its input.
C7_Witness ==
    /\ pdfOut2 # None
    /\ OutPdf.serial = InPdf.serial + 1
    /\ \E i, j \in DOMAIN InPdf.objs :
          /\ OutPdf.objs[i].content.kind = "jpeg"
          /\ InPdf.objs[i].content.kind = "flate"
          /\ EligibleAsClaimed(InPdf.objs[j]) /\ ~InPdf.objs[j].jpeg_ok
    /\ pdfOut2[1] = OutPdf

SomeRewritable(pdf) ==
    \E i \in DOMAIN pdf.objs :
        EligibleOrBitsMissing(pdf.objs[i]) /\ pdf.objs[i].jpeg_ok

\* C8: the original bytes come back when the PDF cannot be parsed, when no
\* object was rewritten (none eligible, or the encoder returned empty for
\* every eligible one) or when serialization fails; newly serialised bytes
\* come back only when an object was changed and serialization succeeded.
C8_OriginalUnlessRewrittenAndSaved ==
    pdfOut # None =>
        /\ (~InPdf.parse_ok \/ ~SomeRewritable(InPdf) \/ ~InPdf.save_ok)
              => OutPdf = InPdf
        /\ OutPdf # InPdf =>
              /\ InPdf.parse_ok /\ InPdf.save_ok
              /\ OutPdf.serial = InPdf.serial + 1
              /\ \E i \in DOMAIN InPdf.objs : OutPdf.objs[i] # InPdf.objs[i]
        /\ (InPdf.parse_ok /\ SomeRewritable(InPdf) /\ InPdf.save_ok)
              => OutPdf # InPdf

\* C8 witness: an image could be rewritten but serialization failed, and
\* the original bytes came back.
C8_Witness ==
    /\ pdfOut # None
    /\ InPdf.parse_ok /\ SomeRewritable(InPdf) /\ ~InPdf.save_ok
    /\ OutPdf = InPdf

====
